---- MODULE Spec2Model ----
(***************************************************************************)
(* Model of EDGARSCRAPER_balancesheet.py: the table segmenter              *)
(* (extract_line_items_with_sections), the section reclassifier            *)
(* (adjust_line_section), closest-date selection (select_closest_date),    *)
(* the master merge (merge_statements_into_master) and the driver loop of  *)
(* main.  Python strings are sequences of one-character strings, so that   *)
(* strip, lower, the regular expressions and the date formats are computed *)
(* character by character, as the code computes them.                      *)
(***************************************************************************)
EXTENDS Integers, Sequences, FiniteSets, TLC

VARIABLES
    pc,               \* position of the running function
    df,               \* extract_line_items_with_sections: the DataFrame, a sequence of equally long rows
    date_row_index,   \* extract_line_items_with_sections: index of the header row (0-based)
    date_labels,      \* extract_line_items_with_sections: stripped header cells
    output_rows,      \* extract_line_items_with_sections: rows emitted so far
    current_section,  \* extract_line_items_with_sections: section inherited by the next line
    row_i,            \* extract_line_items_with_sections: loop index (0-based)
    row,              \* adjust_line_section: its argument
    adjusted,         \* adjust_line_section: its return value
    date_vals,        \* select_closest_date: the row's date_values
    filing_date_str,  \* select_closest_date: the filing date
    best_key,         \* select_closest_date: first component of the result
    best_canon,       \* select_closest_date: second component of the result
    all_statements,   \* main / merge_statements_into_master: statements appended (folded) so far
    master_order,     \* merge_statements_into_master: keys in first-seen order
    master_data,      \* merge_statements_into_master: key -> (canonical date -> value)
    all_dates,        \* merge_statements_into_master: set of canonical dates
    final_rows,       \* merge_statements_into_master: rows of the returned DataFrame
    filings,          \* main: the filing list
    filing_i,         \* main: loop index i (1-based, as enumerate(filings, start=1))
    raw_sheets,       \* main: sheet_name -> raw table
    retrieval,        \* main: how the retrieval of each filing attempted so far ended
    output            \* main: what the run printed / wrote last

vars == << pc, df, date_row_index, date_labels, output_rows, current_section, row_i,
           row, adjusted, date_vals, filing_date_str, best_key, best_canon,
           all_statements, master_order, master_data, all_dates, final_rows,
           filings, filing_i, raw_sheets, retrieval, output >>

segVars == << df, date_row_index, date_labels, output_rows, current_section, row_i >>
adjVars == << row, adjusted >>
selVars == << date_vals, filing_date_str, best_key, best_canon >>
mergeVars == << all_statements, master_order, master_data, all_dates, final_rows >>
mainVars == << filings, filing_i, raw_sheets, retrieval, output >>

(***************************************************************************)
(* Python values                                                           *)
(***************************************************************************)
\* Python's None (a missing cell of a ragged table, an absent result)
None == << "None" >>

UpperLetters == << "A", "B", "C", "D", "E", "F", "G", "H", "I", "J", "K", "L", "M", "N", "O", "P", "Q", "R", "S", "T", "U", "V", "W", "X", "Y", "Z" >>
LowerLetters == << "a", "b", "c", "d", "e", "f", "g", "h", "i", "j", "k", "l", "m", "n", "o", "p", "q", "r", "s", "t", "u", "v", "w", "x", "y", "z" >>
DigitChars == << "0", "1", "2", "3", "4", "5", "6", "7", "8", "9" >>

\* position of c in seq, 0 when absent
IndexIn(c, seq) ==
    IF \E i \in 1..Len(seq) : seq[i] = c
    THEN CHOOSE i \in 1..Len(seq) : seq[i] = c
    ELSE 0

UpperSet == {UpperLetters[i] : i \in 1..26}
LowerSet == {LowerLetters[i] : i \in 1..26}
DigitSet == {DigitChars[i] : i \in 1..10}

IsUpper(c) == c \in UpperSet
IsLower(c) == c \in LowerSet
IsAlpha(c) == IsUpper(c) \/ IsLower(c)
IsDigit(c) == c \in DigitSet
\* regex \w
IsWordChar(c) == IsAlpha(c) \/ IsDigit(c) \/ c = "_"
IsSpace(c) == c \in {" ", "\t", "\n", "\r"}
DigitVal(c) == IndexIn(c, DigitChars) - 1

ToLowerChar(c) == IF IsUpper(c) THEN LowerLetters[IndexIn(c, UpperLetters)] ELSE c
\* str.lower()
lower(s) == [i \in 1..Len(s) |-> ToLowerChar(s[i])]

SetMin(S) == CHOOSE x \in S : \A y \in S : x <= y
SetMax(S) == CHOOSE x \in S : \A y \in S : x >= y

\* str.strip()
strip(s) ==
    LET keep == {i \in 1..Len(s) : ~IsSpace(s[i])}
    IN IF keep = {} THEN << >> ELSE SubSeq(s, SetMin(keep), SetMax(keep))

\* str.rstrip(ch)
rstrip(s, ch) ==
    LET keep == {i \in 1..Len(s) : s[i] # ch}
    IN IF keep = {} THEN << >> ELSE SubSeq(s, 1, SetMax(keep))

\* str.startswith(p), str.endswith(p), p in s
startswith(s, p) == Len(p) <= Len(s) /\ SubSeq(s, 1, Len(p)) = p
endswith(s, p) == Len(p) <= Len(s) /\ SubSeq(s, Len(s) - Len(p) + 1, Len(s)) = p
contains(s, p) == \E i \in 0..(Len(s) - Len(p)) : SubSeq(s, i + 1, i + Len(p)) = p

\* "None"
Str_None == << "N", "o", "n", "e" >>

\* x or ""
OrEmpty(x) == IF x = None \/ x = << >> THEN << >> ELSE x
\* bool(x) of a cell
Truthy(x) == x # None /\ x # << >>
\* str(x) of a cell
str(x) == IF x = None THEN Str_None ELSE x

RECURSIVE IntToStr(_)
\* str(n) of a natural number, as in the f-string of line 228
IntToStr(n) ==
    IF n < 10 THEN << DigitChars[n + 1] >>
    ELSE IntToStr(n \div 10) \o << DigitChars[(n % 10) + 1] >>

\* dict[k] = v on an insertion-ordered dict, a sequence of <<key, value>> pairs
DictSet(d, k, v) ==
    IF \E i \in 1..Len(d) : d[i][1] = k
    THEN [i \in 1..Len(d) |-> IF d[i][1] = k THEN << k, v >> ELSE d[i]]
    ELSE Append(d, << k, v >>)
DictHas(d, k) == \E i \in 1..Len(d) : d[i][1] = k
DictGet(d, k) == d[CHOOSE i \in 1..Len(d) : d[i][1] = k][2]
DictKeys(d) == [i \in 1..Len(d) |-> d[i][1]]

(***************************************************************************)
(* The strings of the model                                                *)
(***************************************************************************)
\* ""
Str_Empty == <<  >>
\* "Mar. 31, 2024"
Str_Mar24 == << "M", "a", "r", ".", " ", "3", "1", ",", " ", "2", "0", "2", "4" >>
\* "Dec. 31, 2023"
Str_Dec23 == << "D", "e", "c", ".", " ", "3", "1", ",", " ", "2", "0", "2", "3" >>
\* "Jun. 30, 2024"
Str_Jun24 == << "J", "u", "n", ".", " ", "3", "0", ",", " ", "2", "0", "2", "4" >>
\* "2024-03-31"
Str_Mar24Iso == << "2", "0", "2", "4", "-", "0", "3", "-", "3", "1" >>
\* "Mar. 31, 2024 (10-Q)"
Str_Mar24Note == << "M", "a", "r", ".", " ", "3", "1", ",", " ", "2", "0", "2", "4", " ", "(", "1", "0", "-", "Q", ")" >>
\* "USD ($)"
Str_Usd == << "U", "S", "D", " ", "(", "$", ")" >>
\* "CURRENT ASSETS:"
Str_CurrentAssets == << "C", "U", "R", "R", "E", "N", "T", " ", "A", "S", "S", "E", "T", "S", ":" >>
\* "Cash"
Str_Cash == << "C", "a", "s", "h" >>
\* "Accounts payable"
Str_AccountsPayable == << "A", "c", "c", "o", "u", "n", "t", "s", " ", "p", "a", "y", "a", "b", "l", "e" >>
\* "Common stock, $0.01 par value"
Str_CommonStock == << "C", "o", "m", "m", "o", "n", " ", "s", "t", "o", "c", "k", ",", " ", "$", "0", ".", "0", "1", " ", "p", "a", "r", " ", "v", "a", "l", "u", "e" >>
\* "100"
Str_V100 == << "1", "0", "0" >>
\* " 120 "
Str_V120 == << " ", "1", "2", "0", " " >>
\* "7"
Str_V7 == << "7" >>
\* "accounts payable"
Pat_AccountsPayable == << "a", "c", "c", "o", "u", "n", "t", "s", " ", "p", "a", "y", "a", "b", "l", "e" >>
\* "accrued and other current liabilities"
Pat_AccruedOther == << "a", "c", "c", "r", "u", "e", "d", " ", "a", "n", "d", " ", "o", "t", "h", "e", "r", " ", "c", "u", "r", "r", "e", "n", "t", " ", "l", "i", "a", "b", "i", "l", "i", "t", "i", "e", "s" >>
\* "common stock, $0.01 par value"
Pat_CommonStock == << "c", "o", "m", "m", "o", "n", " ", "s", "t", "o", "c", "k", ",", " ", "$", "0", ".", "0", "1", " ", "p", "a", "r", " ", "v", "a", "l", "u", "e" >>
\* "Current liabilities"
Sec_CurrentLiabilities == << "C", "u", "r", "r", "e", "n", "t", " ", "l", "i", "a", "b", "i", "l", "i", "t", "i", "e", "s" >>
\* "Post-Statement"
Sec_PostStatement == << "P", "o", "s", "t", "-", "S", "t", "a", "t", "e", "m", "e", "n", "t" >>
\* "Line_"
Str_LinePrefix == << "L", "i", "n", "e", "_" >>
\* "Line / Section"
Str_LineSection == << "L", "i", "n", "e", " ", "/", " ", "S", "e", "c", "t", "i", "o", "n" >>
\* "2024-04-01"
Str_Fd20240401 == << "2", "0", "2", "4", "-", "0", "4", "-", "0", "1" >>
\* "2024-03-31"
Str_Fd20240331 == << "2", "0", "2", "4", "-", "0", "3", "-", "3", "1" >>
\* "2024-05-15"
Str_Fd20240515 == << "2", "0", "2", "4", "-", "0", "5", "-", "1", "5" >>
\* "2023-12-31"
Str_Canon20231231 == << "2", "0", "2", "3", "-", "1", "2", "-", "3", "1" >>
\* "2024-03-31"
Str_Canon20240331 == << "2", "0", "2", "4", "-", "0", "3", "-", "3", "1" >>
\* "2024-06-30"
Str_Canon20240630 == << "2", "0", "2", "4", "-", "0", "6", "-", "3", "0" >>
\* "LONG-TERM LIABILITIES"
Str_LongTerm == << "L", "O", "N", "G", "-", "T", "E", "R", "M", " ", "L", "I", "A", "B", "I", "L", "I", "T", "I", "E", "S" >>
\* "Trade "
Str_Trade == << "T", "r", "a", "d", "e", " " >>
\* "COMMON STOCK, $0.01 PAR VALUE"
Str_CommonStockUpper == << "C", "O", "M", "M", "O", "N", " ", "S", "T", "O", "C", "K", ",", " ", "$", "0", ".", "0", "1", " ", "P", "A", "R", " ", "V", "A", "L", "U", "E" >>
\* " and Accounts Payable"
Str_AccountsPayableMixed == << " ", "a", "n", "d", " ", "A", "c", "c", "o", "u", "n", "t", "s", " ", "P", "a", "y", "a", "b", "l", "e" >>
\* ", accrued and other current liabilities"
Str_AccruedOtherTail == << ",", " ", "a", "c", "c", "r", "u", "e", "d", " ", "a", "n", "d", " ", "o", "t", "h", "e", "r", " ", "c", "u", "r", "r", "e", "n", "t", " ", "l", "i", "a", "b", "i", "l", "i", "t", "i", "e", "s" >>
\* "  "
Str_Indent == << " ", " " >>
\* "2024-08-01"
Str_Fd20240801 == << "2", "0", "2", "4", "-", "0", "8", "-", "0", "1" >>
\* "2024-02-01"
Str_Fd20240201 == << "2", "0", "2", "4", "-", "0", "2", "-", "0", "1" >>
\* "10-Q"
Str_10Q == << "1", "0", "-", "Q" >>
\* "10-K"
Str_10K == << "1", "0", "-", "K" >>

(***************************************************************************)
(* adjust_line_section                                                     *)
(***************************************************************************)
\* mutant: the two rules tested in the opposite order
adjust_line_section_swapped(r) ==
    IF r.type # "line" THEN r.section_name
    ELSE IF startswith(lower(r.line_label), Pat_CommonStock) THEN Sec_PostStatement
    ELSE IF contains(lower(r.line_label), Pat_AccountsPayable)
            \/ contains(lower(r.line_label), Pat_AccruedOther) THEN Sec_CurrentLiabilities
    ELSE r.section_name

adjust_line_section(r) ==
    IF r.type # "line" THEN r.section_name
    ELSE LET Rules(line_lower) ==
                 IF contains(line_lower, Pat_AccountsPayable)
                    \/ contains(line_lower, Pat_AccruedOther)
                 THEN Sec_CurrentLiabilities
                 ELSE IF startswith(line_lower, Pat_CommonStock)
                 THEN Sec_PostStatement
                 ELSE r.section_name
         IN Rules(lower(r.line_label))

(***************************************************************************)
(* extract_line_items_with_sections                                        *)
(***************************************************************************)
\* df.shape[1]: every row of a DataFrame has the same number of cells
NCols(d) == IF Len(d) = 0 THEN 0 ELSE Len(d[1])
\* df.empty
IsEmptyDf(d) == Len(d) = 0 \/ NCols(d) = 0

\* the number of leading rows scanned for the date header
HeaderScanRows == 3

MonthAbbrevs == { << "d", "e", "c" >>, << "m", "a", "r" >>, << "s", "e", "p" >>, << "j", "u", "n" >>,
                  << "f", "e", "b" >>, << "j", "a", "n" >>, << "j", "u", "l" >>, << "a", "u", "g" >>,
                  << "n", "o", "v" >>, << "o", "c", "t" >>, << "a", "p", "r" >>, << "m", "a", "y" >> }

\* re.search(r"(20\d{2}|19\d{2}|Dec|Mar|...|May)", s, re.IGNORECASE)
DateIsh(s) ==
    \/ \E i \in 1..(Len(s) - 3) :
          /\ SubSeq(s, i, i + 1) \in { << "2", "0" >>, << "1", "9" >> }
          /\ IsDigit(s[i + 2])
          /\ IsDigit(s[i + 3])
    \/ \E i \in 1..(Len(s) - 2) : lower(SubSeq(s, i, i + 2)) \in MonthAbbrevs

\* date_count of one row
DateCount(row_values) ==
    Cardinality({c \in 1..Len(row_values) : DateIsh(str(row_values[c]))})

\* mutant: a row qualifies only with MORE than half of its cells date-ish
RowQualifies_strict(row_values) == DateCount(row_values) > (Len(row_values) \div 2)

\* the test of line 178
RowQualifies(row_values) == DateCount(row_values) >= (Len(row_values) \div 2)

RECURSIVE ScanDateRow(_, _)
\* the loop of lines 174-180 from index i on; -1 stands for date_row_index = None
ScanDateRow(d, i) ==
    IF i >= (IF HeaderScanRows < Len(d) THEN HeaderScanRows ELSE Len(d)) THEN -1
    ELSE IF RowQualifies(d[i + 1]) THEN i
    ELSE ScanDateRow(d, i + 1)

\* lines 173-182
FindDateRowIndex(d) ==
    LET OrZero(found) == IF found = -1 THEN 0 ELSE found
    IN OrZero(ScanDateRow(d, 0))

\* lines 184-185
DateLabels(d, idx) == [c \in 1..Len(d[idx + 1]) |-> strip(OrEmpty(d[idx + 1][c]))]

\* mostly_caps
mostly_caps(s) ==
    LET alpha == {i \in 1..Len(s) : IsAlpha(s[i])}
        upper == {i \in alpha : IsUpper(s[i])}
    IN IF alpha = {} THEN FALSE
       ELSE 10 * Cardinality(upper) > 7 * Cardinality(alpha)

\* line 201
LabelStr(row_data) == strip(OrEmpty(row_data[1]))
\* line 202
NonEmpty(row_data) ==
    Cardinality({c \in 1..Len(row_data) : Truthy(row_data[c]) /\ strip(str(row_data[c])) # << >>})
\* the test of line 205
IsSectionRow(row_data) ==
    /\ NonEmpty(row_data) <= 2
    /\ (mostly_caps(LabelStr(row_data)) \/ endswith(LabelStr(row_data), << ":" >>))

RECURSIVE CollectDateVals_unstripped(_, _, _, _)
\* mutant: the cell is stored as it is, without strip()
CollectDateVals_unstripped(row_data, labels, col_i, acc) ==
    IF col_i >= Len(row_data) THEN acc
    ELSE IF col_i < Len(labels) /\ strip(OrEmpty(row_data[col_i + 1])) # << >>
    THEN CollectDateVals_unstripped(row_data, labels, col_i + 1,
                                    DictSet(acc, labels[col_i + 1], OrEmpty(row_data[col_i + 1])))
    ELSE CollectDateVals_unstripped(row_data, labels, col_i + 1, acc)

RECURSIVE CollectDateVals(_, _, _, _)
\* the loop of lines 217-223, from col_i (0-based) on
CollectDateVals(row_data, labels, col_i, acc) ==
    IF col_i >= Len(row_data) THEN acc
    ELSE IF col_i < Len(labels) /\ strip(OrEmpty(row_data[col_i + 1])) # << >>
    THEN CollectDateVals(row_data, labels, col_i + 1,
                         DictSet(acc, labels[col_i + 1], strip(OrEmpty(row_data[col_i + 1]))))
    ELSE CollectDateVals(row_data, labels, col_i + 1, acc)

\* lines 206-212
SectionRow(row_data) ==
    [type |-> "section", section_name |-> rstrip(LabelStr(row_data), ":"),
     line_label |-> << >>, date_values |-> << >>]

\* lines 216-232
LineRow(row_data, labels, section, ri) ==
    LET Dict(label_str) ==
            [type |-> "line", section_name |-> section,
             line_label |-> IF label_str # << >> THEN label_str
                            ELSE Str_LinePrefix \o IntToStr(ri),
             date_values |-> CollectDateVals(row_data, labels, 1, << >>)]
        Override(row_dict) == [row_dict EXCEPT !.section_name = adjust_line_section(row_dict)]
    IN Override(Dict(LabelStr(row_data)))

\* mutant: the overridden section of a line becomes the current section
SegmentRow_override_leaks(st, row_data, labels, ri) ==
    IF row_data = << >> THEN st
    ELSE IF IsSectionRow(row_data)
    THEN [rows |-> Append(st.rows, SectionRow(row_data)),
          section |-> rstrip(LabelStr(row_data), ":")]
    ELSE LET Leak(line) == [rows |-> Append(st.rows, line), section |-> line.section_name]
         IN Leak(LineRow(row_data, labels, st.section, ri))

\* one iteration of the loop of lines 196-234 on the state st = [rows, section]
SegmentRow(st, row_data, labels, ri) ==
    IF row_data = << >> THEN st
    ELSE IF IsSectionRow(row_data)
    THEN [rows |-> Append(st.rows, SectionRow(row_data)),
          section |-> rstrip(LabelStr(row_data), ":")]
    ELSE [rows |-> Append(st.rows, LineRow(row_data, labels, st.section, ri)),
          section |-> st.section]

RECURSIVE SegmentFrom(_, _, _, _)
SegmentFrom(d, labels, ri, st) ==
    IF ri >= Len(d) THEN st.rows
    ELSE SegmentFrom(d, labels, ri + 1, SegmentRow(st, d[ri + 1], labels, ri))

\* mutant: only an empty table is degenerate
IsDegenerate_empty_only(d) == IsEmptyDf(d)

\* the test of line 169
IsDegenerate(d) == IsEmptyDf(d) \/ NCols(d) < 2

\* the whole function
extract_line_items_with_sections(d) ==
    IF IsDegenerate(d) THEN << >>
    ELSE LET Rows(idx) ==
                 SegmentFrom(d, DateLabels(d, idx), idx + 1, [rows |-> << >>, section |-> << >>])
         IN Rows(FindDateRowIndex(d))

(***************************************************************************)
(* parse_date_label and select_closest_date                                *)
(***************************************************************************)
RECURSIVE RemoveParens(_)
\* re.sub(r"\(.*?\)", "", s): every "(" up to the first ")" after it is removed
RemoveParens(s) ==
    LET opens == {i \in 1..Len(s) : s[i] = "(" /\ \E j \in (i + 1)..Len(s) : s[j] = ")"}
    IN IF opens = {} THEN s
       ELSE LET i == SetMin(opens)
                j == SetMin({n \in (i + 1)..Len(s) : s[n] = ")"})
            IN SubSeq(s, 1, i - 1) \o RemoveParens(SubSeq(s, j + 1, Len(s)))

\* re.sub(r"\b(\w+)\.", r"\1", s): a "." that follows a word character is removed
RemoveWordDots(s) ==
    LET marked == [i \in 1..Len(s) |->
                      << s[i], ~(s[i] = "." /\ i > 1 /\ IsWordChar(s[i - 1])) >>]
        kept == SelectSeq(marked, LAMBDA p : p[2])
    IN [i \in 1..Len(kept) |-> kept[i][1]]

\* the classes of characters dateutil's lexer groups into tokens
CharClass(c) == IF IsAlpha(c) THEN "alpha" ELSE IF IsDigit(c) THEN "digit" ELSE "sep"

RECURSIVE Tokens(_, _, _)
\* the maximal runs of letters and of digits of s from position i on; cur is the
\* run being read
Tokens(s, i, cur) ==
    IF i > Len(s) THEN (IF cur = << >> THEN << >> ELSE << cur >>)
    ELSE IF CharClass(s[i]) = "sep"
    THEN (IF cur = << >> THEN << >> ELSE << cur >>) \o Tokens(s, i + 1, << >>)
    ELSE IF cur # << >> /\ CharClass(cur[1]) # CharClass(s[i])
    THEN << cur >> \o Tokens(s, i + 1, << s[i] >>)
    ELSE Tokens(s, i + 1, Append(cur, s[i]))

IsNumber(t) == Len(t) > 0 /\ \A i \in 1..Len(t) : IsDigit(t[i])

RECURSIVE StrToInt(_)
\* int(t) of a string of digits
StrToInt(t) == IF Len(t) = 0 THEN 0 ELSE 10 * StrToInt(SubSeq(t, 1, Len(t) - 1)) + DigitVal(t[Len(t)])

MonthNames == << << "j", "a", "n" >>, << "f", "e", "b" >>, << "m", "a", "r" >>, << "a", "p", "r" >>,
                 << "m", "a", "y" >>, << "j", "u", "n" >>, << "j", "u", "l" >>, << "a", "u", "g" >>,
                 << "s", "e", "p" >>, << "o", "c", "t" >>, << "n", "o", "v" >>, << "d", "e", "c" >> >>

IsLeap(y) == (y % 4 = 0 /\ y % 100 # 0) \/ y % 400 = 0
DaysInMonth(y, m) ==
    IF m = 2 THEN (IF IsLeap(y) THEN 29 ELSE 28)
    ELSE IF m \in {4, 6, 9, 11} THEN 30 ELSE 31
IsValidDate(y, m, d) == y \in 1..9999 /\ m \in 1..12 /\ d \in 1..DaysInMonth(y, m)

RECURSIVE DaysBeforeMonth(_, _)
DaysBeforeMonth(y, m) == IF m = 1 THEN 0 ELSE DaysBeforeMonth(y, m - 1) + DaysInMonth(y, m - 1)

\* datetime.toordinal(): the day number of y-m-d
Ordinal(y, m, d) ==
    LET p == y - 1
    IN 365 * p + (p \div 4) - (p \div 100) + (p \div 400) + DaysBeforeMonth(y, m) + d

NoDate == [ok |-> FALSE, y |-> 0, m |-> 0, d |-> 0]

\* dateutil.parser.parse(s, fuzzy=True) on the header forms of the model,
\* "Mon D, YYYY" and "YYYY-MM-DD"; a text with neither a month name nor a number
\* holds no date and makes parse raise (ok = FALSE)
DateutilParse(s) ==
    LET Read(t) ==
       IF Len(t) = 3 /\ IndexIn(lower(t[1]), MonthNames) > 0
          /\ IsNumber(t[2]) /\ Len(t[2]) <= 2 /\ IsNumber(t[3]) /\ Len(t[3]) = 4
          /\ IsValidDate(StrToInt(t[3]), IndexIn(lower(t[1]), MonthNames), StrToInt(t[2]))
       THEN [ok |-> TRUE, y |-> StrToInt(t[3]), m |-> IndexIn(lower(t[1]), MonthNames),
             d |-> StrToInt(t[2])]
       ELSE IF Len(t) = 3 /\ IsNumber(t[1]) /\ Len(t[1]) = 4 /\ IsNumber(t[2]) /\ Len(t[2]) <= 2
               /\ IsNumber(t[3]) /\ Len(t[3]) <= 2
               /\ IsValidDate(StrToInt(t[1]), StrToInt(t[2]), StrToInt(t[3]))
       THEN [ok |-> TRUE, y |-> StrToInt(t[1]), m |-> StrToInt(t[2]), d |-> StrToInt(t[3])]
       ELSE NoDate
    IN Read(Tokens(s, 1, << >>))

\* n written with at least w digits
RECURSIVE ZeroPad(_, _)
ZeroPad(t, w) == IF Len(t) >= w THEN t ELSE ZeroPad(<< "0" >> \o t, w)

\* dt.strftime("%Y-%m-%d")
Strftime(dt) ==
    ZeroPad(IntToStr(dt.y), 4) \o << "-" >> \o ZeroPad(IntToStr(dt.m), 2) \o << "-" >>
        \o ZeroPad(IntToStr(dt.d), 2)

\* datetime.datetime.strptime(s, "%Y-%m-%d"); ok = FALSE when it raises
Strptime(s) ==
    LET Fields(ys, ms, ds) ==
            IF IsNumber(ys) /\ Len(ys) = 4 /\ IsNumber(ms) /\ Len(ms) <= 2
               /\ IsNumber(ds) /\ Len(ds) <= 2
               /\ IsValidDate(StrToInt(ys), StrToInt(ms), StrToInt(ds))
            THEN [ok |-> TRUE, y |-> StrToInt(ys), m |-> StrToInt(ms), d |-> StrToInt(ds)]
            ELSE NoDate
        Split(a, b) == Fields(SubSeq(s, 1, a - 1), SubSeq(s, a + 1, b - 1), SubSeq(s, b + 1, Len(s)))
        Dashes(dashes) ==
            IF Cardinality(dashes) # 2 THEN NoDate ELSE Split(SetMin(dashes), SetMax(dashes))
    IN Dashes({i \in 1..Len(s) : s[i] = "-"})

\* lines 246-252
parse_date_label(dlabel) ==
    LET Format(base_label, dt) == IF dt.ok THEN Strftime(dt) ELSE base_label
        Try(base_label) == Format(base_label, DateutilParse(base_label))
    IN Try(RemoveWordDots(strip(RemoveParens(dlabel))))

Abs(n) == IF n < 0 THEN -n ELSE n

\* abs((a - b).days) of two dates
DayDiff(a, b) == Abs(Ordinal(a.y, a.m, a.d) - Ordinal(b.y, b.m, b.d))

NoBest == [key |-> None, diff |-> -1, canon |-> None]

RECURSIVE SelectLoop_last_tie(_, _, _, _)
\* mutant: "diff <= best_diff", so that the last of several equally close labels wins
SelectLoop_last_tie(keys, i, filing_date, best) ==
    IF i > Len(keys) THEN best
    ELSE LET Closer(canon, diff) ==
                 IF best.diff = -1 \/ diff <= best.diff
                 THEN [key |-> keys[i], diff |-> diff, canon |-> canon]
                 ELSE best
             Step(canon, dt) ==
                 IF ~dt.ok THEN best ELSE Closer(canon, DayDiff(filing_date, dt))
             Body(canon) == Step(canon, Strptime(canon))
         IN SelectLoop_last_tie(keys, i + 1, filing_date, Body(parse_date_label(keys[i])))

RECURSIVE SelectLoop(_, _, _, _)
\* the loop of lines 265-275 from the i-th key on; best.diff = -1 stands for
\* best_diff = None
SelectLoop(keys, i, filing_date, best) ==
    IF i > Len(keys) THEN best
    ELSE LET Closer(canon, diff) ==
                 IF best.diff = -1 \/ diff < best.diff
                 THEN [key |-> keys[i], diff |-> diff, canon |-> canon]
                 ELSE best
             Step(canon, dt) ==
                 IF ~dt.ok THEN best ELSE Closer(canon, DayDiff(filing_date, dt))
             Body(canon) == Step(canon, Strptime(canon))
         IN SelectLoop(keys, i + 1, filing_date, Body(parse_date_label(keys[i])))

\* the whole function: << best_key, best_canon >>
select_closest_date(dv, fds) ==
    IF dv = << >> THEN << None, None >>
    ELSE LET Result(best) == << best.key, best.canon >>
         IN Result(SelectLoop(DictKeys(dv), 1, Strptime(fds), NoBest))

(***************************************************************************)
(* merge_statements_into_master                                            *)
(***************************************************************************)
Range(s) == {s[i] : i \in 1..Len(s)}

\* line 298
RowKey(r) == << r.type, r.section_name, r.line_label >>

\* f with f[k] = v, on a dict kept as a function
Assign(f, k, v) == [x \in (DOMAIN f) \cup {k} |-> IF x = k THEN v ELSE f[x]]

EmptyMaster == [order |-> << >>, data |-> << >>, dates |-> {}]

\* mutant: the key is appended without the test "key not in master_order"
FoldRow_always_append(m, r, filing_date) ==
    LET Store(key, order1, data1, sel) ==
            IF sel[2] # None
            THEN [order |-> order1,
                  data |-> Assign(data1, key,
                                  Assign(data1[key], sel[2], DictGet(r.date_values, sel[1]))),
                  dates |-> m.dates \cup {sel[2]}]
            ELSE [order |-> order1, data |-> data1, dates |-> m.dates]
        Register(key) ==
            Store(key,
                  Append(m.order, key),
                  IF key \notin DOMAIN m.data THEN Assign(m.data, key, << >>) ELSE m.data,
                  select_closest_date(r.date_values, filing_date))
    IN Register(RowKey(r))

\* mutant: a cell already stored is kept, the later value is dropped
FoldRow_first_write(m, r, filing_date) ==
    LET Store(key, order1, data1, sel) ==
            IF sel[2] # None
            THEN [order |-> order1,
                  data |-> IF sel[2] \in DOMAIN data1[key]
                           THEN data1
                           ELSE Assign(data1, key,
                                       Assign(data1[key], sel[2],
                                              DictGet(r.date_values, sel[1]))),
                  dates |-> m.dates \cup {sel[2]}]
            ELSE [order |-> order1, data |-> data1, dates |-> m.dates]
        Register(key) ==
            Store(key,
                  IF key \notin Range(m.order) THEN Append(m.order, key) ELSE m.order,
                  IF key \notin DOMAIN m.data THEN Assign(m.data, key, << >>) ELSE m.data,
                  select_closest_date(r.date_values, filing_date))
    IN Register(RowKey(r))

\* lines 298-309: one row folded into m = [order, data, dates]
FoldRow(m, r, filing_date) ==
    LET Store(key, order1, data1, sel) ==
            IF sel[2] # None
            THEN [order |-> order1,
                  data |-> Assign(data1, key,
                                  Assign(data1[key], sel[2], DictGet(r.date_values, sel[1]))),
                  dates |-> m.dates \cup {sel[2]}]
            ELSE [order |-> order1, data |-> data1, dates |-> m.dates]
        Register(key) ==
            Store(key,
                  IF key \notin Range(m.order) THEN Append(m.order, key) ELSE m.order,
                  IF key \notin DOMAIN m.data THEN Assign(m.data, key, << >>) ELSE m.data,
                  select_closest_date(r.date_values, filing_date))
    IN Register(RowKey(r))

RECURSIVE FoldRows(_, _, _, _)
\* the loop of line 297 from the i-th row on
FoldRows(m, rows, i, filing_date) ==
    IF i > Len(rows) THEN m
    ELSE FoldRows(FoldRow(m, rows[i], filing_date), rows, i + 1, filing_date)

\* lines 292-309: one statement folded into m
FoldStatement(m, statement) == FoldRows(m, statement.rows, 1, statement.filing_date)

RECURSIVE FoldStatements(_, _, _)
\* the loop of line 292 from the i-th statement on
FoldStatements(m, statements, i) ==
    IF i > Len(statements) THEN m
    ELSE FoldStatements(FoldStatement(m, statements[i]), statements, i + 1)

\* the day number of datetime.datetime.max
MaxOrdinal == Ordinal(9999, 12, 31) + 1

\* parse_dt of lines 312-316, as a day number
parse_dt(s) ==
    LET Key(dt) == IF dt.ok THEN Ordinal(dt.y, dt.m, dt.d) ELSE MaxOrdinal
    IN Key(Strptime(s))

\* the orders of the elements of the set S
Orders(S) ==
    {p \in [1..Cardinality(S) -> S] : \A i, j \in 1..Cardinality(S) : i # j => p[i] # p[j]}

\* mutant: the dates are listed as the set yields them, unsorted
SortedDates_unsorted(dates) == Orders(dates)

\* sorted(all_dates, key=parse_dt), line 318: the sort is stable and a set is
\* iterated in no fixed order, so every order with the keys ascending can result
SortedDates(dates) ==
    LET key == [d \in dates |-> parse_dt(d)]
    IN {p \in Orders(dates) : \A i, j \in 1..Len(p) : i < j => key[p[i]] <= key[p[j]]}

\* lines 321-333: the rows of the returned DataFrame
FinalRows(m, sorted_dates) ==
    << << Str_LineSection >> \o sorted_dates >> \o
    [k \in 1..Len(m.order) |->
        IF m.order[k][1] = "section"
        THEN << m.order[k][2] >> \o [n \in 1..Len(sorted_dates) |-> Str_Empty]
        ELSE << Str_Indent \o m.order[k][3] >> \o
             [n \in 1..Len(sorted_dates) |->
                 IF sorted_dates[n] \in DOMAIN m.data[m.order[k]]
                 THEN m.data[m.order[k]][sorted_dates[n]]
                 ELSE Str_Empty]]

\* lines 353, 375-380 of main: the statement appended for a filing and its table
SheetName(filing) == filing.form_type \o << "_" >> \o filing.filing_date
BuildStatement(filing, df_table) ==
    [filing_key |-> SheetName(filing), filing_date |-> filing.filing_date,
     rows |-> extract_line_items_with_sections(df_table)]

(***************************************************************************)
(* Values of the variables a specification does not use                    *)
(***************************************************************************)
SegIdle ==
    /\ df = << >>
    /\ date_row_index = 0
    /\ date_labels = << >>
    /\ output_rows = << >>
    /\ current_section = << >>
    /\ row_i = 0
AdjIdle == row = None /\ adjusted = None
SelIdle == date_vals = << >> /\ filing_date_str = << >> /\ best_key = None /\ best_canon = None
MergeIdle ==
    /\ all_statements = << >>
    /\ master_order = << >>
    /\ master_data = << >>
    /\ all_dates = {}
    /\ final_rows = << >>
MainIdle ==
    /\ filings = << >>
    /\ filing_i = 1
    /\ raw_sheets = << >>
    /\ retrieval = << >>
    /\ output = "none"

(***************************************************************************)
(* Bounded inputs                                                          *)
(***************************************************************************)
MaxRows == 4
MaxCols == 3

SeqsUpTo(S, n) == UNION {[1..k -> S] : k \in 0..n}

\* rows of raw statement tables, four cells wide
RowPool ==
    { << Str_Empty, Str_Mar24, Str_Dec23, Str_Jun24 >>,
      << Str_Empty, Str_Mar24, Str_Mar24, Str_Empty >>,
      << Str_Empty, Str_Empty, Str_Dec23, Str_Empty >>,
      << Str_CurrentAssets, Str_Empty, Str_Empty, Str_Empty >>,
      << Str_Cash, Str_V100, Str_V120, Str_V7 >>,
      << Str_AccountsPayable, Str_V7, None, Str_V100 >> }

\* a pool row cut or padded (with blank cells) to w cells
Widen(r, w) == [c \in 1..w |-> IF c <= Len(r) THEN r[c] ELSE Str_Empty]

\* the tables handed to the segmenter: up to MaxRows rows of 0..MaxCols cells
SegTables ==
    { [k \in 1..Len(t) |-> Widen(t[k], w)] : t \in SeqsUpTo(RowPool, MaxRows), w \in 0..MaxCols }

(***************************************************************************)
(* Specification of extract_line_items_with_sections, one row per step     *)
(***************************************************************************)
SegInit ==
    /\ pc = "seg_start"
    /\ df \in SegTables
    /\ date_row_index = 0
    /\ date_labels = << >>
    /\ output_rows = << >>
    /\ current_section = << >>
    /\ row_i = 0
    /\ AdjIdle /\ SelIdle /\ MergeIdle /\ MainIdle

\* lines 169-170
SegReturnEmpty ==
    /\ pc = "seg_start"
    /\ IsDegenerate(df)
    /\ pc' = "seg_done"
    /\ output_rows' = << >>
    /\ UNCHANGED << df, date_row_index, date_labels, current_section, row_i >>
    /\ UNCHANGED << adjVars, selVars, mergeVars, mainVars >>

\* lines 172-188
SegLocateHeader ==
    /\ pc = "seg_start"
    /\ ~IsDegenerate(df)
    /\ date_row_index' = FindDateRowIndex(df)
    /\ date_labels' = DateLabels(df, date_row_index')
    /\ output_rows' = << >>
    /\ current_section' = << >>
    /\ row_i' = date_row_index' + 1
    /\ pc' = "seg_rows"
    /\ UNCHANGED << df, adjVars, selVars, mergeVars, mainVars >>

\* lines 196-213: the row is a section heading
SegSectionRow ==
    /\ pc = "seg_rows"
    /\ row_i < Len(df)
    /\ IsSectionRow(df[row_i + 1])
    /\ \E st \in {SegmentRow([rows |-> output_rows, section |-> current_section],
                               df[row_i + 1], date_labels, row_i)} :
          output_rows' = st.rows /\ current_section' = st.section
    /\ row_i' = row_i + 1
    /\ UNCHANGED << pc, df, date_row_index, date_labels, adjVars, selVars, mergeVars, mainVars >>

\* lines 196-234: the row is a line item
SegLineRow ==
    /\ pc = "seg_rows"
    /\ row_i < Len(df)
    /\ ~IsSectionRow(df[row_i + 1])
    /\ \E st \in {SegmentRow([rows |-> output_rows, section |-> current_section],
                               df[row_i + 1], date_labels, row_i)} :
          output_rows' = st.rows /\ current_section' = st.section
    /\ row_i' = row_i + 1
    /\ UNCHANGED << pc, df, date_row_index, date_labels, adjVars, selVars, mergeVars, mainVars >>

\* line 236
SegReturn ==
    /\ pc = "seg_rows"
    /\ row_i >= Len(df)
    /\ pc' = "seg_done"
    /\ UNCHANGED << segVars, adjVars, selVars, mergeVars, mainVars >>

SegNext == SegReturnEmpty \/ SegLocateHeader \/ SegSectionRow \/ SegLineRow \/ SegReturn

SpecSeg == SegInit /\ [][SegNext]_vars

(***************************************************************************)
(* Claims about extract_line_items_with_sections (SpecSeg)                 *)
(***************************************************************************)
\* the table row an emitted row was made from: rows are emitted one per table row
\* after the header, in order
SourceRow(k) == df[date_row_index + 1 + k]

\* the section_name of the nearest section row emitted before position k
InheritedSection(k) ==
    LET secs == {j \in 1..(k - 1) : output_rows[j].type = "section"}
    IN IF secs = {} THEN << >> ELSE output_rows[SetMax(secs)].section_name

LabelHasRule1(label) ==
    \/ contains(lower(label), Pat_AccountsPayable)
    \/ contains(lower(label), Pat_AccruedOther)
LabelHasRule2(label) == startswith(lower(label), Pat_CommonStock)

\* C3: in the returned rows every line row carries the section of the nearest section row emitted before
\* it (the empty string when there is none), unless its label matches a
\* reclassification rule, and then it carries that rule's section; since the
\* inherited section is read from the section rows alone, a reclassified line does
\* not change what the lines after it inherit.
C3_SectionInheritance ==
    pc = "seg_done" =>
        \A k \in 1..Len(output_rows) :
            output_rows[k].type = "line" =>
                IF LabelHasRule1(output_rows[k].line_label)
                THEN output_rows[k].section_name = Sec_CurrentLiabilities
                ELSE IF LabelHasRule2(output_rows[k].line_label)
                THEN output_rows[k].section_name = Sec_PostStatement
                ELSE output_rows[k].section_name = InheritedSection(k)

\* a section row, then a reclassified line, then a plain line that still inherits
\* the section row's name
C3_Witness ==
    \E k \in 1..Len(output_rows) :
        /\ pc = "seg_done"
        /\ k >= 3
        /\ output_rows[k - 2].type = "section"
        /\ output_rows[k - 2].section_name # << >>
        /\ output_rows[k - 1].type = "line"
        /\ LabelHasRule1(output_rows[k - 1].line_label)
        /\ output_rows[k - 1].section_name # output_rows[k - 2].section_name
        /\ output_rows[k].type = "line"
        /\ ~LabelHasRule1(output_rows[k].line_label)
        /\ output_rows[k].section_name = output_rows[k - 2].section_name

HeaderLocated == pc = "seg_rows" \/ (pc = "seg_done" /\ ~IsDegenerate(df))

ScannedRows == {i \in 0..(HeaderScanRows - 1) : i < Len(df)}

\* C9 as stated: the header row is the first of rows 0, 1, 2 with
\* 2 * (date-ish cells) >= cells, and row 0 when none qualifies.
C9_HeaderAtLeastHalf ==
    HeaderLocated =>
        LET q == {i \in ScannedRows : 2 * DateCount(df[i + 1]) >= Len(df[i + 1])}
        IN date_row_index = (IF q = {} THEN 0 ELSE SetMin(q))

\* C9 amended: the header row is the first of rows 0, 1, 2 whose number of date-ish
\* cells is at least half of its cell count rounded down, and row 0 when none
\* qualifies.
C9_HeaderAtLeastFloorHalf ==
    HeaderLocated =>
        LET q == {i \in ScannedRows : DateCount(df[i + 1]) >= Len(df[i + 1]) \div 2}
        IN date_row_index = (IF q = {} THEN 0 ELSE SetMin(q))

\* rows 0 and 1 do not qualify and row 2 does
C9_Witness == HeaderLocated /\ date_row_index = 2

\* the columns (0-based, c >= 1) of emitted row k with a non-blank cell
FilledCols(k) ==
    {c \in 1..(Len(SourceRow(k)) - 1) :
        c < Len(date_labels) /\ strip(OrEmpty(SourceRow(k)[c + 1])) # << >>}

\* every key of date_values holds a non-empty value taken from a non-blank cell of
\* the row under that label
C10_KeysFromCells(k) ==
    \A n \in 1..Len(output_rows[k].date_values) :
        LET kv == output_rows[k].date_values[n]
        IN /\ kv[2] # << >>
           /\ \E c \in FilledCols(k) :
                 date_labels[c + 1] = kv[1] /\ strip(OrEmpty(SourceRow(k)[c + 1])) = kv[2]

\* C10 as stated: in the returned rows, for every line row and every column c >= 1 with a non-blank cell,
\* date_values[date_labels[c]] is the trimmed cell of column c; and every key of
\* date_values holds a non-empty value of a non-blank cell.
C10_EveryCellRecorded ==
    \A k \in 1..Len(output_rows) :
        (pc = "seg_done" /\ output_rows[k].type = "line") =>
            /\ \A c \in FilledCols(k) :
                  /\ DictHas(output_rows[k].date_values, date_labels[c + 1])
                  /\ DictGet(output_rows[k].date_values, date_labels[c + 1])
                        = strip(OrEmpty(SourceRow(k)[c + 1]))
            /\ C10_KeysFromCells(k)

\* C10 amended: in the returned rows, for every line row and every column c >= 1 with a non-blank cell,
\* date_values[date_labels[c]] is the trimmed cell of the last column that carries
\* the same label and is non-blank in that row (column c itself when no later
\* column repeats its label); and every key of date_values holds a non-empty value
\* of a non-blank cell.
C10_LastCellPerLabelRecorded ==
    \A k \in 1..Len(output_rows) :
        (pc = "seg_done" /\ output_rows[k].type = "line") =>
            /\ \A c \in FilledCols(k) :
                  LET same == {c2 \in FilledCols(k) : date_labels[c2 + 1] = date_labels[c + 1]}
                  IN /\ DictHas(output_rows[k].date_values, date_labels[c + 1])
                     /\ DictGet(output_rows[k].date_values, date_labels[c + 1])
                           = strip(OrEmpty(SourceRow(k)[SetMax(same) + 1]))
            /\ C10_KeysFromCells(k)

\* a line row with two non-blank cells under one label and with different values
C10_Witness ==
    \E k \in 1..Len(output_rows) :
        /\ pc = "seg_done"
        /\ output_rows[k].type = "line"
        /\ \E c1, c2 \in FilledCols(k) :
              /\ c1 < c2
              /\ date_labels[c1 + 1] = date_labels[c2 + 1]
              /\ strip(OrEmpty(SourceRow(k)[c1 + 1])) # strip(OrEmpty(SourceRow(k)[c2 + 1]))

(***************************************************************************)
(* Specification of adjust_line_section applied to one row                 *)
(***************************************************************************)
\* labels put together from a head and a tail, in several spellings
AdjLabels ==
    { h \o t : h \in { Str_Empty, Str_CommonStock, Str_CommonStockUpper, Str_Trade },
               t \in { Str_Empty, Str_Cash, Str_AccountsPayable, Str_AccountsPayableMixed,
                       Str_AccruedOtherTail } }

AdjSections == { Str_Empty, Str_LongTerm, Sec_CurrentLiabilities, rstrip(Str_CurrentAssets, ":") }

AdjRows ==
    [type : {"line", "section"}, section_name : AdjSections, line_label : AdjLabels,
     date_values : { << >> }]

AdjInit ==
    /\ pc = "adj_start"
    /\ row \in AdjRows
    /\ adjusted = None
    /\ SegIdle /\ SelIdle /\ MergeIdle /\ MainIdle

\* row_dict["section_name"] = adjust_line_section(row_dict)
AdjCall ==
    /\ pc = "adj_start"
    /\ adjusted' = adjust_line_section(row)
    /\ pc' = "adj_done"
    /\ UNCHANGED << row, segVars, selVars, mergeVars, mainVars >>

AdjNext == AdjCall

SpecAdjust == AdjInit /\ [][AdjNext]_vars

\* C6: on a line row the first matching rule decides: a label containing
\* "accounts payable" or "accrued and other current liabilities" (in any case)
\* gives "Current liabilities", also when it starts with "common stock, $0.01 par
\* value"; otherwise a label starting with that gives "Post-Statement"; every
\* other line row and every section row keeps its section_name.
C6_FirstRuleWins ==
    pc = "adj_done" =>
        IF row.type = "line" /\ LabelHasRule1(row.line_label)
        THEN adjusted = Sec_CurrentLiabilities
        ELSE IF row.type = "line" /\ LabelHasRule2(row.line_label)
        THEN adjusted = Sec_PostStatement
        ELSE adjusted = row.section_name

\* a line whose label matches both rules, not in lower case, and sat in another
\* section
C6_Witness ==
    /\ pc = "adj_done"
    /\ row.type = "line"
    /\ LabelHasRule1(row.line_label)
    /\ LabelHasRule2(row.line_label)
    /\ lower(row.line_label) # row.line_label
    /\ row.section_name = Str_LongTerm
    /\ adjusted = Sec_CurrentLiabilities

(***************************************************************************)
(* Specification of select_closest_date applied to one mapping             *)
(***************************************************************************)
MaxLabels == 3

\* raw date labels: three dates, a second and a third spelling of one of them,
\* and two labels that are no date
LabelPool ==
    { Str_Dec23, Str_Mar24, Str_Jun24, Str_Mar24Iso, Str_Mar24Note, Str_Usd, Str_Empty }

FilingDates == { Str_Fd20240401, Str_Fd20240331, Str_Fd20240515 }

\* the mappings with up to MaxLabels distinct keys, in every insertion order
SelDicts ==
    { [i \in 1..Len(ks) |-> << ks[i], Str_V100 >>] :
        ks \in { s \in SeqsUpTo(LabelPool, MaxLabels) :
                    \A i, j \in 1..Len(s) : i # j => s[i] # s[j] } }

SelInit ==
    /\ pc = "sel_start"
    /\ date_vals \in SelDicts
    /\ filing_date_str \in FilingDates
    /\ best_key = None
    /\ best_canon = None
    /\ SegIdle /\ AdjIdle /\ MergeIdle /\ MainIdle

\* best_raw, best_canon = select_closest_date(row["date_values"], filing_date)
SelCall ==
    /\ pc = "sel_start"
    /\ \E result \in {select_closest_date(date_vals, filing_date_str)} :
          best_key' = result[1] /\ best_canon' = result[2]
    /\ pc' = "sel_done"
    /\ UNCHANGED << date_vals, filing_date_str, segVars, adjVars, mergeVars, mainVars >>

SelNext == SelCall

SpecSelect == SelInit /\ [][SelNext]_vars

\* the date each key's canonical form stands for (ok = FALSE when it is no date)
KeyDates(dv) == [n \in 1..Len(dv) |-> Strptime(parse_date_label(dv[n][1]))]
\* the positions of the keys whose canonical form is a YYYY-MM-DD date
ParsingKeys(dv) == LET dates == KeyDates(dv) IN {n \in 1..Len(dv) : dates[n].ok}
\* the day distance of each parsing key's date to the filing date
KeyDistances(dv, fds) ==
    LET dates == KeyDates(dv)
        fd == Strptime(fds)
    IN [n \in 1..Len(dv) |-> IF dates[n].ok THEN DayDiff(fd, dates[n]) ELSE -1]
\* the first position among those of minimum distance
ClosestKey(dv, fds) ==
    LET dist == KeyDistances(dv, fds)
        parsing == {n \in 1..Len(dv) : dist[n] >= 0}
    IN SetMin({n \in parsing : \A o \in parsing : dist[n] <= dist[o]})

\* C2: the result is the raw label of minimum day distance to the filing date
\* among the labels whose canonical form is a date, the first such label in
\* insertion order when several are equally close, with its canonical date; there
\* is no selection exactly when no label parses; and labels of 2023-12-31,
\* 2024-03-31, 2024-06-30 with filing date 2024-04-01 select 2024-03-31.
C2_ClosestFirstOnTies ==
    pc = "sel_done" =>
        /\ LET parsing == ParsingKeys(date_vals)
           IN /\ (best_key = None) <=> (parsing = {})
              /\ (best_canon = None) <=> (parsing = {})
              /\ parsing # {} =>
                    /\ best_key = date_vals[ClosestKey(date_vals, filing_date_str)][1]
                    /\ best_canon = parse_date_label(best_key)
        /\ (DictKeys(date_vals) = << Str_Dec23, Str_Mar24, Str_Jun24 >>
               /\ filing_date_str = Str_Fd20240401) =>
              (best_key = Str_Mar24 /\ best_canon = Str_Canon20240331)

\* a label that is no date, then two dates equally far from the filing date: the
\* first of the two is selected
C2_Witness ==
    /\ pc = "sel_done"
    /\ DictKeys(date_vals) = << Str_Usd, Str_Jun24, Str_Dec23 >>
    /\ filing_date_str = Str_Fd20240331
    /\ KeyDistances(date_vals, filing_date_str)[2] = KeyDistances(date_vals, filing_date_str)[3]
    /\ best_key = Str_Jun24
    /\ best_canon = Str_Canon20240630

(***************************************************************************)
(* Specification of merge_statements_into_master, one statement per step   *)
(***************************************************************************)
MaxStatements == 3

\* three columns of dates; Cash appears twice, once without its last two cells
TableThreeDates ==
    << << Str_Empty, Str_Dec23, Str_Mar24, Str_Jun24 >>,
       << Str_CurrentAssets, Str_Empty, Str_Empty, Str_Empty >>,
       << Str_Cash, Str_V100, Str_V120, Str_V7 >>,
       << Str_Cash, Str_V7, Str_Empty, None >> >>
\* a column whose label is no date, and a second spelling of 2024-03-31
TableNoted ==
    << << Str_Empty, Str_Usd, Str_Mar24Note >>,
       << Str_CurrentAssets, Str_Empty, Str_Empty >>,
       << Str_Cash, Str_V7, Str_V100 >>,
       << Str_AccountsPayable, Str_V120, Str_Empty >> >>
\* other values for Cash under 2023-12-31 and under 2024-03-31 in its ISO spelling
TableRestated ==
    << << Str_Empty, Str_Dec23, Str_Mar24Iso >>,
       << Str_CurrentAssets, Str_Empty, Str_Empty >>,
       << Str_Cash, Str_V120, Str_V7 >> >>
\* degenerate tables: one column, and no rows at all
TableOneCell == << << Str_Cash >> >>
TableOneColumn == << << Str_Cash >>, << Str_AccountsPayable >> >>
TableEmpty == << >>

MergeTables ==
    { TableThreeDates, TableNoted, TableRestated, TableOneCell, TableOneColumn, TableEmpty }

MergeFilings ==
    { [form_type |-> Str_10Q, accession_number |-> 1, filing_date |-> Str_Fd20240801],
      [form_type |-> Str_10K, accession_number |-> 2, filing_date |-> Str_Fd20240201] }

MergeInit ==
    /\ pc = "merge_loop"
    /\ all_statements = << >>
    /\ master_order = << >>
    /\ master_data = << >>
    /\ all_dates = {}
    /\ final_rows = << >>
    /\ SegIdle /\ AdjIdle /\ SelIdle /\ MainIdle

\* one iteration of the loop of line 292, on the statement main built (lines
\* 375-380) from a filing and its table; df and output_rows keep that table and
\* its rows
MergeFold ==
    /\ pc = "merge_loop"
    /\ Len(all_statements) < MaxStatements
    /\ \E filing \in MergeFilings, df_table \in MergeTables :
          \E statement \in {BuildStatement(filing, df_table)} :
          \E m \in {FoldStatement([order |-> master_order, data |-> master_data,
                                  dates |-> all_dates], statement)} :
             /\ all_statements' = Append(all_statements, statement)
             /\ master_order' = m.order
             /\ master_data' = m.data
             /\ all_dates' = m.dates
             /\ df' = df_table
             /\ output_rows' = statement.rows
    /\ UNCHANGED << pc, final_rows, date_row_index, date_labels, current_section, row_i,
                    adjVars, selVars, mainVars >>

\* lines 311-335, after the last statement
MergeAssemble ==
    /\ pc = "merge_loop"
    /\ \E sorted_dates \in SortedDates(all_dates) :
          final_rows' = FinalRows([order |-> master_order, data |-> master_data,
                                   dates |-> all_dates], sorted_dates)
    /\ pc' = "merge_done"
    /\ UNCHANGED << all_statements, master_order, master_data, all_dates,
                    segVars, adjVars, selVars, mainVars >>

MergeNext == MergeFold \/ MergeAssemble

SpecMerge == MergeInit /\ [][MergeNext]_vars

\* the keys of all rows folded so far, in input order
RECURSIVE KeysOf(_, _)
KeysOf(statements, i) ==
    IF i > Len(statements) THEN << >>
    ELSE [k \in 1..Len(statements[i].rows) |-> RowKey(statements[i].rows[k])]
         \o KeysOf(statements, i + 1)

\* the elements of s without their repetitions, each at its first occurrence
FirstOccurrences(s) ==
    LET marked == [i \in 1..Len(s) |-> << s[i], \A j \in 1..(i - 1) : s[j] # s[i] >>]
        kept == SelectSeq(marked, LAMBDA p : p[2])
    IN [i \in 1..Len(kept) |-> kept[i][1]]

C1_FirstSeenOrder ==
    /\ master_order = FirstOccurrences(KeysOf(all_statements, 1))
    /\ \A i, j \in 1..Len(master_order) : i # j => master_order[i] # master_order[j]

C1_PositionsKept ==
    /\ Len(master_order') >= Len(master_order)
    /\ SubSeq(master_order', 1, Len(master_order)) = master_order
    /\ Range(master_order') \ Range(master_order)
          = Range(KeysOf(all_statements', 1)) \ Range(KeysOf(all_statements, 1))

\* C1: after any sequence of statements master_order holds each key exactly once,
\* in the order of the keys' first occurrence over the statements and their rows;
\* a fold leaves every key already present at its position and appends only keys
\* not seen before.
C1_MasterOrderFirstSeen == [](C1_FirstSeenOrder) /\ [][C1_PositionsKept]_vars

\* the first statement repeats a key within itself; the second repeats keys of the
\* first and brings a new one
C1_Witness ==
    /\ Len(all_statements) >= 2
    /\ \E a, b \in 1..Len(all_statements[1].rows) :
          a # b /\ RowKey(all_statements[1].rows[a]) = RowKey(all_statements[1].rows[b])
    /\ \E a \in 1..Len(all_statements[2].rows) :
          RowKey(all_statements[2].rows[a]) \in Range(KeysOf(<< all_statements[1] >>, 1))
    /\ \E a \in 1..Len(all_statements[2].rows) :
          RowKey(all_statements[2].rows[a]) \notin Range(KeysOf(<< all_statements[1] >>, 1))
    /\ Len(master_order) < Len(KeysOf(all_statements, 1))

\* a canonical date: it parses as YYYY-MM-DD and is written in that fixed form
IsCanonicalDate(s) == Strptime(s).ok /\ Strftime(Strptime(s)) = s

\* the date columns of the master table: its header row after "Line / Section"
DateColumns == Tail(final_rows[1])

\* C7: the date columns of the master table are pairwise distinct canonical
\* YYYY-MM-DD dates in strictly ascending calendar order, no label that is no date
\* is on the date axis or keys a cell, and the dates 2024-06-30, 2023-12-31,
\* 2024-03-31 come out as 2023-12-31, 2024-03-31, 2024-06-30.
C7_DateAxisSorted ==
    /\ \A d \in all_dates : IsCanonicalDate(d)
    /\ \A key \in DOMAIN master_data : \A d \in DOMAIN master_data[key] : IsCanonicalDate(d)
    /\ pc = "merge_done" =>
          /\ final_rows[1][1] = Str_LineSection
          /\ Range(DateColumns) = all_dates
          /\ \A i \in 1..Len(DateColumns) : IsCanonicalDate(DateColumns[i])
          /\ \A i, j \in 1..Len(DateColumns) :
                i < j => parse_dt(DateColumns[i]) < parse_dt(DateColumns[j])
          /\ all_dates = { Str_Canon20240630, Str_Canon20231231, Str_Canon20240331 } =>
                DateColumns = << Str_Canon20231231, Str_Canon20240331, Str_Canon20240630 >>

\* the three dates entered the axis latest first, from rows of which one also had
\* a value under a label that is no date
C7_Witness ==
    /\ pc = "merge_done"
    /\ DateColumns = << Str_Canon20231231, Str_Canon20240331, Str_Canon20240630 >>
    /\ Len(all_statements) = 3
    /\ all_statements[1].filing_date = Str_Fd20240801
    /\ all_statements[2].filing_date = Str_Fd20240201
    /\ \E k \in 1..Len(all_statements[3].rows) :
          DictHas(all_statements[3].rows[k].date_values, Str_Usd)

\* C8: a table that is empty or has fewer than two columns gives the empty row
\* sequence, and folding a statement with the empty row sequence leaves
\* master_order, the cells and the date axis as they were.
C8_DegenerateStep ==
    Len(all_statements') = Len(all_statements) + 1 =>
        /\ (Len(df') = 0 \/ Len(df'[1]) < 2) => output_rows' = << >>
        /\ output_rows' = << >> =>
              /\ master_order' = master_order
              /\ master_data' = master_data
              /\ all_dates' = all_dates
C8_DegenerateIsEmptyResult == [][C8_DegenerateStep]_vars

\* a table of one column and two rows was folded after a statement with data
C8_Witness ==
    /\ Len(all_statements) >= 2
    /\ df = TableOneColumn
    /\ output_rows = << >>
    /\ all_statements[Len(all_statements)].rows = << >>
    /\ master_order # << >>
    /\ all_dates # {}

\* lines 305-308 for one row: the cell << key, date, value >> it writes, if any
RowWrite(r, filing_date) ==
    LET Written(sel) ==
            IF sel[2] # None
            THEN << << RowKey(r), sel[2], DictGet(r.date_values, sel[1]) >> >>
            ELSE << >>
    IN Written(select_closest_date(r.date_values, filing_date))

\* the cells written by the rows of the statements from the i-th on, in input order
RECURSIVE WritesOfRows(_, _, _)
WritesOfRows(rows, i, filing_date) ==
    IF i > Len(rows) THEN << >>
    ELSE RowWrite(rows[i], filing_date) \o WritesOfRows(rows, i + 1, filing_date)
RECURSIVE WritesOf(_, _)
WritesOf(statements, i) ==
    IF i > Len(statements) THEN << >>
    ELSE WritesOfRows(statements[i].rows, 1, statements[i].filing_date)
         \o WritesOf(statements, i + 1)

\* the cells of master_data as a set of << key, date, value >>
Cells(data) ==
    UNION { { << k, d, data[k][d] >> : d \in DOMAIN data[k] } : k \in DOMAIN data }

\* the cells are those written, each with the value of its last write
LastWritesStored(w) ==
    /\ Cells(master_data) =
          { w[n] : n \in { i \in 1..Len(w) :
                              \A j \in (i + 1)..Len(w) :
                                  ~(w[j][1] = w[i][1] /\ w[j][2] = w[i][2]) } }
    /\ all_dates = { w[n][2] : n \in 1..Len(w) }
C11_LastWriteStored == LastWritesStored(WritesOf(all_statements, 1))

\* from the i-th row on, every row folded into m adds or replaces at most one
\* cell, touches no other cell, and the fold ends in the master after the step
RECURSIVE RowsWriteAtMostOne(_, _, _, _, _)
RowsWriteAtMostOne(m, rows, i, filing_date, last) ==
    LET Checked(after) ==
            /\ Cardinality(Cells(after.data) \ Cells(m.data)) <= 1
            /\ Cardinality(Cells(m.data) \ Cells(after.data)) <= 1
            /\ \A old \in Cells(m.data) \ Cells(after.data) :
                  \E new \in Cells(after.data) \ Cells(m.data) :
                      new[1] = old[1] /\ new[2] = old[2]
            /\ Cardinality(after.dates \ m.dates) <= 1
            /\ RowsWriteAtMostOne(after, rows, i + 1, filing_date, last)
    IN IF i > Len(rows)
       THEN m = last
       ELSE Checked(FoldRow(m, rows[i], filing_date))

C11_FoldStep ==
    Len(all_statements') = Len(all_statements) + 1 =>
        /\ all_dates \subseteq all_dates'
        /\ \A key \in DOMAIN master_data :
              /\ key \in DOMAIN master_data'
              /\ DOMAIN master_data[key] \subseteq DOMAIN master_data'[key]
        /\ RowsWriteAtMostOne(
              [order |-> master_order, data |-> master_data, dates |-> all_dates],
              all_statements'[Len(all_statements')].rows, 1,
              all_statements'[Len(all_statements')].filing_date,
              [order |-> master_order', data |-> master_data', dates |-> all_dates'])

\* C11: after any sequence of folds each cell (key, date) of master_data holds the
\* value of the last row in input order that selected that date for that key,
\* whether the colliding rows come from one statement or from several; a fold
\* never removes a cell or a date already stored, and each folded row writes at
\* most one cell.
C11_LastWriteWins == [](C11_LastWriteStored) /\ [][C11_FoldStep]_vars

\* two rows of the first statement collided on a cell with different values, a
\* row of the second statement wrote that cell again with a third value, and the
\* cell holds that third value
C11_Witness ==
    /\ Len(all_statements) = 2
    /\ \E w1 \in { WritesOf(<< all_statements[1] >>, 1) } :
       \E w2 \in { WritesOf(<< all_statements[2] >>, 1) } :
          \E a, b \in 1..Len(w1), c \in 1..Len(w2) :
             /\ a < b
             /\ w1[a][1] = w1[b][1] /\ w1[a][2] = w1[b][2] /\ w1[a][3] # w1[b][3]
             /\ w2[c][1] = w1[b][1] /\ w2[c][2] = w1[b][2]
             /\ w2[c][3] # w1[b][3] /\ w2[c][3] # w1[a][3]
             /\ \A j \in (c + 1)..Len(w2) : ~(w2[j][1] = w2[c][1] /\ w2[j][2] = w2[c][2])
             /\ master_data[w2[c][1]][w2[c][2]] = w2[c][3]

(***************************************************************************)
(* Specification of main: the driver loop, the merge and the output        *)
(***************************************************************************)
MaxFilings == 3

\* what get_last_filings_10k_10q can return: up to MaxFilings filings
FilingLists == SeqsUpTo(MergeFilings, MaxFilings)

\* the tables parse_single_statement_table returns from a fetched page: a
\* statement table, a table of one cell, and the empty DataFrame of line 125
MainTables == { TableThreeDates, TableOneCell, TableEmpty }

MainInit ==
    /\ pc = "main_start"
    /\ filings \in FilingLists
    /\ filing_i = 1
    /\ raw_sheets = << >>
    /\ retrieval = << >>
    /\ output = "none"
    /\ SegIdle /\ AdjIdle /\ SelIdle /\ MergeIdle

\* lines 342-344
MainNoFilings ==
    /\ pc = "main_start"
    /\ filings = << >>
    /\ output' = "No recent 10-K/10-Q filings found."
    /\ pc' = "main_exit"
    /\ UNCHANGED << filings, filing_i, raw_sheets, retrieval,
                    segVars, adjVars, selVars, mergeVars >>

\* lines 346-349
MainEnterLoop ==
    /\ pc = "main_start"
    /\ filings # << >>
    /\ raw_sheets' = << >>
    /\ all_statements' = << >>
    /\ filing_i' = 1
    /\ pc' = "main_loop"
    /\ UNCHANGED << filings, retrieval, output, master_order, master_data, all_dates,
                    final_rows, segVars, adjVars, selVars >>

\* mutant: a skipped filing ends the loop (break instead of continue)
IndexAfterSkip_break(i, n) == n + 1

\* continue, lines 359, 364, 369: the loop goes on with the next filing
IndexAfterSkip(i, n) == i + 1

\* what a skipped filing leaves behind
MainSkip(why) ==
    /\ pc = "main_loop"
    /\ filing_i <= Len(filings)
    /\ retrieval' = Append(retrieval, why)
    /\ filing_i' = IndexAfterSkip(filing_i, Len(filings))
    /\ UNCHANGED << pc, filings, raw_sheets, output, segVars, adjVars, selVars, mergeVars >>

\* lines 356-359: fetch_index_json returned {} (status other than 200)
MainSkipNoIndex == MainSkip("no_index")
\* lines 361-364: find_filing_summary_url returned None
MainSkipNoSummary == MainSkip("no_summary")
\* lines 366-369: find_statement_url_for_balance_sheets returned None
MainSkipNoReport == MainSkip("no_report")

\* lines 371-381 with the table df_table
MainAppend(df_table, how) ==
    /\ pc = "main_loop"
    /\ filing_i <= Len(filings)
    /\ raw_sheets' = Assign(raw_sheets, SheetName(filings[filing_i]), df_table)
    /\ all_statements' = Append(all_statements, BuildStatement(filings[filing_i], df_table))
    /\ retrieval' = Append(retrieval, how)
    /\ filing_i' = filing_i + 1
    /\ UNCHANGED << pc, filings, output, master_order, master_data, all_dates, final_rows,
                    segVars, adjVars, selVars >>

\* lines 110-112, 371-381: the statement document came back with a status other
\* than 200, parse_single_statement_table returned pd.DataFrame()
MainFetchFailed == MainAppend(TableEmpty, "fetch_failed")

\* lines 113-125, 371-381: the page was fetched and parsed
MainParsed == \E df_table \in MainTables : MainAppend(df_table, "ok")

\* lines 383-385
MainNoStatements ==
    /\ pc = "main_loop"
    /\ filing_i > Len(filings)
    /\ all_statements = << >>
    /\ output' = "No statements extracted from any filing."
    /\ pc' = "main_exit"
    /\ UNCHANGED << filings, filing_i, raw_sheets, retrieval,
                    segVars, adjVars, selVars, mergeVars >>

\* lines 387-402
MainMergeAndWrite ==
    /\ pc = "main_loop"
    /\ filing_i > Len(filings)
    /\ all_statements # << >>
    /\ \E m \in {FoldStatements(EmptyMaster, all_statements, 1)} :
          /\ master_order' = m.order
          /\ master_data' = m.data
          /\ all_dates' = m.dates
          /\ \E sorted_dates \in SortedDates(m.dates) : final_rows' = FinalRows(m, sorted_dates)
    /\ output' = "Done! Wrote"
    /\ pc' = "main_exit"
    /\ UNCHANGED << filings, filing_i, raw_sheets, retrieval, all_statements,
                    segVars, adjVars, selVars >>

MainNext ==
    \/ MainNoFilings
    \/ MainEnterLoop
    \/ MainSkipNoIndex
    \/ MainSkipNoSummary
    \/ MainSkipNoReport
    \/ MainFetchFailed
    \/ MainParsed
    \/ MainNoStatements
    \/ MainMergeAndWrite

SpecMain == MainInit /\ [][MainNext]_vars

\* the filings attempted so far whose statement was appended
AppendedFilings == {i \in 1..Len(retrieval) : retrieval[i] \in {"ok", "fetch_failed"}}

\* C4: whatever the retrieval failures, no failure ends the run: when main exits
\* every filing of the list has been attempted, and every filing whose retrieval
\* succeeded has its statement in all_statements, in the order of the list.
C4_FailureNeverAborts ==
    /\ Len(all_statements) = Cardinality(AppendedFilings)
    /\ \A i \in 1..Len(retrieval) :
          retrieval[i] = "ok" =>
              LET at == Cardinality({j \in AppendedFilings : j <= i})
              IN /\ all_statements[at].filing_key = SheetName(filings[i])
                 /\ all_statements[at].filing_date = filings[i].filing_date
    /\ pc = "main_loop" => Len(retrieval) = filing_i - 1
    /\ pc = "main_exit" => Len(retrieval) = Len(filings)

\* the run ended after a failed filing was followed by a filing that succeeded,
\* which was followed by another failure
C4_Witness ==
    /\ pc = "main_exit"
    /\ Len(filings) = 3
    /\ retrieval[1] = "no_index"
    /\ retrieval[2] = "ok"
    /\ retrieval[3] \in {"no_summary", "no_report", "fetch_failed"}
    /\ Len(all_statements) >= 1
    /\ all_statements[1].filing_date = filings[2].filing_date

RunFailed ==
    output \in {"No recent 10-K/10-Q filings found.", "No statements extracted from any filing."}

\* C5 as stated: the run ends in the failure outcome, with no merge and no output,
\* exactly when no filing produced a non-empty row sequence; it reaches the success
\* outcome only when some filing produced rows.
C5_FailureIffNoUsableData ==
    pc = "main_exit" =>
        /\ RunFailed <=> (\A k \in 1..Len(all_statements) : all_statements[k].rows = << >>)
        /\ RunFailed => final_rows = << >>
        /\ output = "Done! Wrote" =>
              \E k \in 1..Len(all_statements) : all_statements[k].rows # << >>
====
